---- MODULE Spec2Model ----
(***************************************************************************)
(* Model of the Express project generator (Aayush0966/express-cli).        *)
(*                                                                         *)
(*   ExpressGenerator   src/src/generators/expressGenerator.js             *)
(*   TemplateService    src/src/services/templateService.js                *)
(*   CLIService         src/unnamed/part_002 (argument-only variant)       *)
(*                      src/unnamed/part_003 (interactive variant)         *)
(*   express-gen        src/unnamed/part_004 (the command, commander)      *)
(*                                                                         *)
(* Representation.  A path is the sequence of its segments, the last one   *)
(* being the file name built exactly as the code builds it                 *)
(* ("database." \o ext).  The content of a generated file is abstracted to *)
(* what the consistency contract is about: the syntax variant of the       *)
(* template branch, the third-party packages it requires/imports, the      *)
(* relative module specifiers it requires/imports, and a structured        *)
(* payload (the manifest for package.json).  A project name is the         *)
(* sequence of its characters.                                             *)
(***************************************************************************)
EXTENDS Integers, Sequences, FiniteSets, TLC

VARIABLES
  entry,        \* how the run was started: "api", "cli"
  cliVariant,   \* which CLIService is installed: "basic" (part_002), "interactive" (part_003)
  argv,         \* the operands of the command line, <<>> or <<name>>
  argName,      \* the <project-name> argument handed to CLIService.run
  pc,           \* position of the run
  projectName,  \* this.projectName of the generator / trimmed name in run
  rawConfig,    \* the config argument of the ExpressGenerator constructor
  config,       \* this.config
  dirs,         \* directories created below the project path
  written,      \* path -> content of every file written so far
  spinner,      \* ora spinner: "idle", "spinning", "succeed", "fail"
  templates,    \* result of TemplateService.getTemplateFiles, <<>> before the call
  validation,   \* result of the last validateProjectName call, NoValidation before
  install,      \* npm install promise: "none", "pending", "resolved"
  shown,        \* messages printed by showError / showSuccess, in order
  exitCode      \* process exit code; NoExit while the process runs

vars == <<entry, cliVariant, argv, argName, pc, projectName, rawConfig, config,
          dirs, written, spinner, templates, validation, install, shown, exitCode>>

EmptyFn == [x \in {} |-> x]
NoExit == -1

(***************************************************************************)
(* Configuration                                                           *)
(***************************************************************************)
Fields == {"language", "authentication", "database",
           "cors", "validation", "testing", "docker"}

Languages == {"javascript", "typescript"}
Authentications == {"none", "jwt", "session"}
Databases == {"none", "mongodb", "postgresql", "mysql", "sqlite"}

\* values a caller can pass that are outside the enumerations
UnknownLanguage == "coffeescript"
UnknownAuthentication == "oauth"
UnknownDatabase == "oracle"

\* expressGenerator.js:11-18, the literal defaults of the constructor
DefaultConfigDocker ==
  [language |-> "javascript", authentication |-> "jwt", database |-> "mongodb",
   cors |-> TRUE, validation |-> TRUE, testing |-> TRUE, docker |-> TRUE]

DefaultConfig ==
  [language |-> "javascript", authentication |-> "jwt", database |-> "mongodb",
   cors |-> TRUE, validation |-> TRUE, testing |-> TRUE, docker |-> FALSE]

\* { ...defaults, ...config }: object spread, the caller's keys win
SpreadOnlyMissing(defaults, raw) ==
  [f \in (DOMAIN defaults) \ (DOMAIN raw) |-> defaults[f]]

Spread(defaults, raw) ==
  [f \in (DOMAIN defaults) \cup (DOMAIN raw) |->
     IF f \in DOMAIN raw THEN raw[f] ELSE defaults[f]]

\* expressGenerator.js:8-21
NormalizeConfig(raw) == Spread(DefaultConfig, raw)

ValidEnums(c) ==
  /\ c.language \in Languages
  /\ c.authentication \in Authentications
  /\ c.database \in Databases

\* an optional value is {} (key absent) or {v}
Options(S) == {{}} \cup {{v} : v \in S}
Opt(f, o) == IF o = {} THEN EmptyFn ELSE f :> (CHOOSE v \in o : TRUE)

RawConfigs ==
  { Opt("language", l) @@ Opt("authentication", a) @@ Opt("database", d) @@
    Opt("cors", c) @@ Opt("validation", v) @@ Opt("testing", t) @@ Opt("docker", k) :
      l \in Options(Languages \cup {UnknownLanguage}),
      a \in Options(Authentications \cup {UnknownAuthentication}),
      d \in Options(Databases \cup {UnknownDatabase}),
      c \in Options(BOOLEAN), v \in Options(BOOLEAN),
      t \in Options(BOOLEAN), k \in Options(BOOLEAN) }

(***************************************************************************)
(* Paths                                                                   *)
(***************************************************************************)
\* const ext = this.config.language === 'typescript' ? 'ts' : 'js'
ExtAlwaysJs(c) == "js"

Ext(c) == IF c.language = "typescript" THEN "ts" ELSE "js"

File(dir, base, ext) == dir \o <<base \o "." \o ext>>

Front(s) == SubSeq(s, 1, Len(s) - 1)
Last(s) == s[Len(s)]
Dirname(p) == Front(p)

Range(s) == {s[i] : i \in DOMAIN s}

(***************************************************************************)
(* Manifest: getPackageJsonContent, expressGenerator.js:149-261            *)
(***************************************************************************)
Merge(m, n) == n @@ m          \* keys of n are assigned after those of m

\* lines 164-173: TypeScript toolchain
TypeScriptDevDependencies(c) ==
  IF c.language = "typescript"
  THEN [typescript |-> "^5.3.2"] @@ ("ts-node" :> "^10.9.1") @@
       ("@types/node" :> "^20.8.0") @@ ("@types/express" :> "^4.17.20")
  ELSE EmptyFn

\* lines 175-181: CORS
CorsDependencies(c) == IF c.cors = TRUE THEN [cors |-> "^2.8.5"] ELSE EmptyFn

CorsDevDependenciesAnyLanguage(c) ==
  IF c.cors = TRUE THEN ("@types/cors" :> "^2.8.15") ELSE EmptyFn

CorsDevDependencies(c) ==
  IF c.cors = TRUE /\ c.language = "typescript"
  THEN ("@types/cors" :> "^2.8.15") ELSE EmptyFn

\* lines 183-186: security middleware, unconditional
SecurityDependenciesWithoutRateLimit ==
  [helmet |-> "^7.1.0", morgan |-> "^1.10.0"]

SecurityDependencies ==
  [helmet |-> "^7.1.0", morgan |-> "^1.10.0"] @@ ("express-rate-limit" :> "^7.1.5")

\* lines 188-204: authentication
AuthDependencies(c) ==
  IF c.authentication = "jwt"
  THEN [bcryptjs |-> "^2.4.3", jsonwebtoken |-> "^9.0.2"]
  ELSE IF c.authentication = "session"
  THEN ("express-session" :> "^1.17.3") @@ ("connect-mongo" :> "^5.1.0") @@
       [bcryptjs |-> "^2.4.3"]
  ELSE EmptyFn

AuthDevDependencies(c) ==
  IF c.language # "typescript" THEN EmptyFn
  ELSE IF c.authentication = "jwt"
  THEN ("@types/bcryptjs" :> "^2.4.5") @@ ("@types/jsonwebtoken" :> "^9.0.5")
  ELSE IF c.authentication = "session"
  THEN ("@types/express-session" :> "^1.17.10") @@ ("@types/bcryptjs" :> "^2.4.5")
  ELSE EmptyFn

\* lines 206-226: switch (this.config.database), no default branch
DatabaseDependenciesNoMysql(c) ==
  CASE c.database = "mongodb"    -> [mongoose |-> "^8.0.3"]
    [] c.database = "postgresql" -> [sequelize |-> "^6.35.0", pg |-> "^8.11.3"]
    [] c.database = "sqlite"     -> [sequelize |-> "^6.35.0", sqlite3 |-> "^5.1.6"]
    [] OTHER                     -> EmptyFn

DatabaseDependencies(c) ==
  CASE c.database = "mongodb"    -> [mongoose |-> "^8.0.3"]
    [] c.database = "postgresql" -> [sequelize |-> "^6.35.0", pg |-> "^8.11.3"]
    [] c.database = "mysql"      -> [sequelize |-> "^6.35.0", mysql2 |-> "^3.6.5"]
    [] c.database = "sqlite"     -> [sequelize |-> "^6.35.0", sqlite3 |-> "^5.1.6"]
    [] OTHER                     -> EmptyFn

DatabaseDevDependencies(c) ==
  IF c.database = "postgresql" /\ c.language = "typescript"
  THEN ("@types/pg" :> "^8.10.7") ELSE EmptyFn

\* lines 228-231: validation
ValidationDependencies(c) ==
  IF c.validation = TRUE THEN ("express-validator" :> "^7.0.1") ELSE EmptyFn

\* lines 233-242: testing
TestingDevDependencies(c) ==
  IF c.testing # TRUE THEN EmptyFn
  ELSE Merge([jest |-> "^29.7.0", supertest |-> "^6.3.3"],
             IF c.language = "typescript"
             THEN ("@types/jest" :> "^29.5.8") @@ ("@types/supertest" :> "^2.0.16") @@
                  ("ts-jest" :> "^29.1.1")
             ELSE EmptyFn)

\* lines 159-162, 171-172, 244-246
ScriptsWithoutBuild(c) ==
  LET base == [start |-> "node server.js", dev |-> "nodemon server.js"]
      test == IF c.testing = TRUE
              THEN [test |-> "jest"] @@ ("test:watch" :> "jest --watch") @@
                   ("test:coverage" :> "jest --coverage")
              ELSE EmptyFn
  IN Merge(base, test)

Scripts(c) ==
  LET base == [start |-> IF c.language = "typescript" THEN "node dist/server.js"
                                                      ELSE "node server.js",
               dev   |-> IF c.language = "typescript" THEN "nodemon --exec ts-node server.ts"
                                                      ELSE "nodemon server.js"]
      ts   == IF c.language = "typescript"
              THEN [build |-> "tsc"] @@ ("build:watch" :> "tsc -w") ELSE EmptyFn
      test == IF c.testing = TRUE
              THEN [test |-> "jest"] @@ ("test:watch" :> "jest --watch") @@
                   ("test:coverage" :> "jest --coverage")
              ELSE EmptyFn
  IN Merge(Merge(base, ts), test)

getPackageJsonContent(c, name) ==
  LET dependencies ==
        Merge(Merge(Merge(Merge(Merge([express |-> "^4.18.2", dotenv |-> "^16.3.1"],
          CorsDependencies(c)), SecurityDependencies), AuthDependencies(c)),
          DatabaseDependencies(c)), ValidationDependencies(c))
      devDependencies ==
        Merge(Merge(Merge(Merge(Merge([nodemon |-> "^3.0.2"],
          TypeScriptDevDependencies(c)), CorsDevDependencies(c)), AuthDevDependencies(c)),
          DatabaseDevDependencies(c)), TestingDevDependencies(c))
  IN [name            |-> name,
      version         |-> "1.0.0",
      main            |-> IF c.language = "typescript" THEN "dist/server.js" ELSE "server.js",
      scripts         |-> Scripts(c),
      dependencies    |-> dependencies,
      devDependencies |-> devDependencies]

Declared(m) == (DOMAIN m.dependencies) \cup (DOMAIN m.devDependencies)

(***************************************************************************)
(* Content getters of ExpressGenerator.  Most return one literal that does *)
(* not look at this.config: CommonJS source with fixed require() calls.    *)
(***************************************************************************)
Content(variant, pkgs, rel, data) ==
  [variant |-> variant, pkgs |-> pkgs, rel |-> rel, data |-> data]

Static == EmptyFn

\* lines 263-270, 272-279, 281-318
getEnvExampleContent(name) == Content("text", {}, {}, [projectName |-> name])
getGitignoreContent == Content("text", {}, {}, Static)
getReadmeContentDated(name) ==
  Content("text", {}, {}, [projectName |-> name, generated |-> pc])
getReadmeContent(name) == Content("text", {}, {}, [projectName |-> name])

\* lines 320-334
getServerContent ==
  Content("source", {"dotenv"},
          {<<".", "src", "app">>, <<".", "src", "config", "database">>}, Static)

\* lines 336-372
getAppContent ==
  Content("source", {"express", "cors", "helmet", "morgan", "express-rate-limit"},
          {<<".", "routes">>, <<".", "middleware", "errorHandler">>,
           <<".", "utils", "helpers">>, <<".", "utils", "constants">>}, Static)

\* lines 374-392
getDatabaseConfigContent == Content("source", {"mongoose"}, {}, Static)

\* lines 394-411
getEnvironmentConfigContent(name) == Content("source", {}, {}, [projectName |-> name])

\* lines 413-443
getAuthMiddlewareContent ==
  Content("source", {"jsonwebtoken"},
          {<<"..", "models", "User">>, <<"..", "config", "environment">>,
           <<"..", "utils", "helpers">>, <<"..", "utils", "constants">>}, Static)

\* lines 445-483
getErrorHandlerContent ==
  Content("source", {},
          {<<"..", "utils", "helpers">>, <<"..", "utils", "constants">>}, Static)

\* lines 485-566
getUserControllerContent ==
  Content("source", {"express-validator"},
          {<<"..", "services", "userService">>, <<"..", "utils", "helpers">>,
           <<"..", "utils", "constants">>}, Static)

\* lines 568-616
getUserModelContent == Content("source", {"mongoose", "bcryptjs"}, {}, Static)

\* lines 618-633
getIndexRoutesContent ==
  Content("source", {"express"},
          {<<".", "userRoutes">>, <<"..", "utils", "helpers">>,
           <<"..", "utils", "constants">>}, Static)

\* lines 635-659
getUserRoutesContent ==
  Content("source", {"express", "express-validator"},
          {<<"..", "controllers", "userController">>}, Static)

\* lines 661-697
getUserServiceContent == Content("source", {}, {<<"..", "models", "User">>}, Static)

\* lines 699-728, 730-765
getHelpersContent == Content("source", {}, {}, Static)
getConstantsContent == Content("source", {}, {}, Static)

\* lines 767-799
getTsConfigContentBuildDir ==
  Content("json", {}, {},
          [outDir |-> <<"build">>, rootDir |-> <<>>,
           include |-> {<<"src", "**", "*">>, <<"server.ts">>},
           exclude |-> {<<"node_modules">>, <<"dist">>, <<"tests">>}])

getTsConfigContent ==
  Content("json", {}, {},
          [outDir |-> <<"dist">>, rootDir |-> <<>>,
           include |-> {<<"src", "**", "*">>, <<"server.ts">>},
           exclude |-> {<<"node_modules">>, <<"dist">>, <<"tests">>}])

\* lines 801-830
getTypesContent == Content("typed", {}, {}, Static)

\* lines 832-864: the preset names the ts-jest package
getJestConfigContent(c) ==
  IF c.language = "typescript"
  THEN Content("source", {"ts-jest"}, {}, [preset |-> "ts-jest"])
  ELSE Content("source", {}, {}, Static)

\* lines 866-894
getDockerfileContent(c) ==
  Content("text", {}, {},
          [steps |-> <<"FROM node:18-alpine", "WORKDIR /app", "COPY package*.json ./",
                       "RUN npm ci --only=production", "COPY . .">> \o
                     (IF c.language = "typescript" THEN <<"RUN npm run build">> ELSE <<>>) \o
                     <<"EXPOSE 3000", "CMD npm start">>])

\* lines 896-962
getDockerComposeContent(c, name) ==
  Content("text", {}, {},
          [projectName |-> name,
           services |-> {"app"} \cup
                        (IF c.database = "mongodb" THEN {"mongodb"}
                         ELSE IF c.database = "postgresql" THEN {"postgres"} ELSE {})])

\* lines 964-977
getDockerIgnoreContent == Content("text", {}, {}, Static)

\* lines 980-1041
getUserTestContent(c) ==
  IF c.language = "typescript"
  THEN Content("typed", {},
               {<<"..", "..", "src", "services", "userService">>,
                <<"..", "..", "src", "types">>}, Static)
  ELSE Content("source", {},
               {<<"..", "..", "src", "services", "userService">>}, Static)

\* lines 1043-1097
getApiTestContent(c) ==
  IF c.language = "typescript"
  THEN Content("typed", {"supertest"}, {<<"..", "..", "src", "app">>}, Static)
  ELSE Content("source", {"supertest"}, {<<"..", "..", "src", "app">>}, Static)

\* package.json carries the manifest as its payload
PackageJsonFile(c, name) == Content("json", {}, {}, getPackageJsonContent(c, name))

(***************************************************************************)
(* File maps of ExpressGenerator, in insertion order                       *)
(***************************************************************************)
Entry(path, content) == [path |-> path, content |-> content]
\* a group of entries guarded by an if statement
WhenAlways(cond, entries) == entries

When(cond, entries) == IF cond THEN entries ELSE <<>>

PackageJson == <<"package.json">>

\* createProjectStructure, lines 43-62: the directories array
DirectoriesWithoutTypes(c) ==
  << <<>>, <<"src">>, <<"src", "controllers">>, <<"src", "middleware">>,
     <<"src", "models">>, <<"src", "routes">>, <<"src", "services">>,
     <<"src", "utils">>, <<"src", "config">> >> \o
  When(c.testing = TRUE,
       << <<"tests">>, <<"tests", "unit">>, <<"tests", "integration">> >>) \o
  When(c.language = "typescript", << <<"dist">> >>)

Directories(c) ==
  << <<>>, <<"src">>, <<"src", "controllers">>, <<"src", "middleware">>,
     <<"src", "models">>, <<"src", "routes">>, <<"src", "services">>,
     <<"src", "utils">>, <<"src", "config">> >> \o
  When(c.testing = TRUE,
       << <<"tests">>, <<"tests", "unit">>, <<"tests", "integration">> >>) \o
  When(c.language = "typescript", << <<"dist">>, <<"src", "types">> >>)

\* createConfigFiles, lines 72-93: the files object
ConfigFiles(c, name) ==
  << Entry(PackageJson, PackageJsonFile(c, name)),
     Entry(<<".env.example">>, getEnvExampleContent(name)),
     Entry(<<".gitignore">>, getGitignoreContent),
     Entry(<<"README.md">>, getReadmeContent(name)) >> \o
  When(c.language = "typescript",
       << Entry(<<"tsconfig.json">>, getTsConfigContent),
          Entry(<<"src", "types", "index.ts">>, getTypesContent) >>) \o
  << Entry(File(<<>>, "server", Ext(c)), getServerContent) >> \o
  When(c.testing = TRUE, << Entry(<<"jest.config.js">>, getJestConfigContent(c)) >>)

\* createSourceFiles, lines 100-142: the sourceFiles object
SourceFiles(c, name) ==
  LET ext == Ext(c) IN
  << Entry(File(<<"src">>, "app", ext), getAppContent),
     Entry(File(<<"src", "config">>, "environment", ext), getEnvironmentConfigContent(name)) >> \o
  When(c.database # "none",
       << Entry(File(<<"src", "config">>, "database", ext), getDatabaseConfigContent) >>) \o
  When(c.authentication # "none",
       << Entry(File(<<"src", "middleware">>, "auth", ext), getAuthMiddlewareContent) >>) \o
  << Entry(File(<<"src", "middleware">>, "errorHandler", ext), getErrorHandlerContent),
     Entry(File(<<"src", "routes">>, "index", ext), getIndexRoutesContent),
     Entry(File(<<"src", "routes">>, "userRoutes", ext), getUserRoutesContent),
     Entry(File(<<"src", "controllers">>, "userController", ext), getUserControllerContent),
     Entry(File(<<"src", "services">>, "userService", ext), getUserServiceContent) >> \o
  When(c.database # "none",
       << Entry(File(<<"src", "models">>, "User", ext), getUserModelContent) >>) \o
  << Entry(File(<<"src", "utils">>, "helpers", ext), getHelpersContent),
     Entry(File(<<"src", "utils">>, "constants", ext), getConstantsContent) >> \o
  When(c.testing = TRUE,
       << Entry(File(<<"tests", "unit">>, "user.test", ext), getUserTestContent(c)),
          Entry(File(<<"tests", "integration">>, "api.test", ext), getApiTestContent(c)) >>)

\* createDockerFiles, lines 1099-1105: the dockerFiles object
DockerFilesWithoutIgnore(c, name) ==
  << Entry(<<"Dockerfile">>, getDockerfileContent(c)),
     Entry(<<"docker-compose.yml">>, getDockerComposeContent(c, name)) >>

DockerFiles(c, name) ==
  << Entry(<<"Dockerfile">>, getDockerfileContent(c)),
     Entry(<<"docker-compose.yml">>, getDockerComposeContent(c, name)),
     Entry(<<".dockerignore">>, getDockerIgnoreContent) >>

\* generate(), lines 28-33: everything one successful run writes, in order
ProjectFiles(c, name) ==
  ConfigFiles(c, name) \o SourceFiles(c, name) \o
  When(c.docker = TRUE, DockerFiles(c, name))

\* Object.entries(files).forEach(write): the first k entries have been written
WriteAll(fs, entries, k) ==
  [p \in (DOMAIN fs) \cup {entries[i].path : i \in 1..k} |->
     IF \E i \in 1..k : entries[i].path = p
     THEN entries[CHOOSE i \in 1..k :
                    entries[i].path = p /\ \A j \in 1..k : entries[j].path = p => j <= i].content
     ELSE fs[p]]

(***************************************************************************)
(* TemplateService.getTemplateFiles, templateService.js:84-201             *)
(***************************************************************************)
\* one element of the templates array: { source, target }
TemplateWithoutSource(source, target) == [source |-> <<>>, target |-> target]

Template(source, target) == [source |-> source, target |-> target]

Tree(c) == IF c.language = "typescript" THEN "typescript" ELSE "javascript"

\* lines 88-152: the unconditional templates
BaseTemplates(c) ==
  LET ext == Ext(c)
      tree == Tree(c)
  IN << Template(<<"base", "package.json.hbs">>, <<"package.json">>),
        Template(<<"base", "env.example.hbs">>, <<".env.example">>),
        Template(<<"base", ".gitignore">>, <<".gitignore">>),
        Template(<<"base", "README.md.hbs">>, <<"README.md">>),
        Template(<<tree, "server.hbs">>,
                 IF c.language = "typescript" THEN <<"server.ts">> ELSE <<"server.js">>),
        Template(<<tree, "src", "app.hbs">>, File(<<"src">>, "app", ext)),
        Template(<<tree, "src", "config", "environment.hbs">>,
                 File(<<"src", "config">>, "environment", ext)),
        Template(<<tree, "src", "middleware", "errorHandler.hbs">>,
                 File(<<"src", "middleware">>, "errorHandler", ext)),
        Template(<<tree, "src", "routes", "index.hbs">>, File(<<"src", "routes">>, "index", ext)),
        Template(<<tree, "src", "routes", "userRoutes.hbs">>,
                 File(<<"src", "routes">>, "userRoutes", ext)),
        Template(<<tree, "src", "controllers", "userController.hbs">>,
                 File(<<"src", "controllers">>, "userController", ext)),
        Template(<<tree, "src", "services", "userService.hbs">>,
                 File(<<"src", "services">>, "userService", ext)),
        Template(<<tree, "src", "utils", "helpers.hbs">>, File(<<"src", "utils">>, "helpers", ext)),
        Template(<<tree, "src", "utils", "constants.hbs">>,
                 File(<<"src", "utils">>, "constants", ext)) >>

\* lines 154-198: the conditional pushes
getTemplateFiles(c) ==
  LET ext == Ext(c)
      tree == Tree(c)
  IN BaseTemplates(c) \o
     When(c.authentication # "none",
          << Template(<<tree, "src", "middleware", "auth.hbs">>,
                      File(<<"src", "middleware">>, "auth", ext)) >>) \o
     When(c.database # "none",
          << Template(<<tree, "src", "models", "User.hbs">>,
                      File(<<"src", "models">>, "User", ext)) >>) \o
     When(c.database # "none",
          << Template(<<tree, "src", "config", "database.hbs">>,
                      File(<<"src", "config">>, "database", ext)) >>) \o
     When(c.language = "typescript",
          << Template(<<"typescript", "tsconfig.json">>, <<"tsconfig.json">>),
             Template(<<"typescript", "src", "types", "index.hbs">>,
                      <<"src", "types", "index.ts">>) >>) \o
     When(c.testing = TRUE,
          << Template(<<"base", "jest.config.js">>, <<"jest.config.js">>) >>) \o
     When(c.docker = TRUE,
          << Template(<<"base", "Dockerfile">>, <<"Dockerfile">>),
             Template(<<"base", "docker-compose.yml">>, <<"docker-compose.yml">>),
             Template(<<"base", ".dockerignore">>, <<".dockerignore">>) >>)

Targets(ts) == {ts[i].target : i \in DOMAIN ts}

(***************************************************************************)
(* Project names: sequences of characters                                  *)
(***************************************************************************)
LowerLetters == <<"a", "b", "c", "d", "e", "f", "g", "h", "i", "j", "k", "l", "m",
                  "n", "o", "p", "q", "r", "s", "t", "u", "v", "w", "x", "y", "z">>
UpperLetters == <<"A", "B", "C", "D", "E", "F", "G", "H", "I", "J", "K", "L", "M",
                  "N", "O", "P", "Q", "R", "S", "T", "U", "V", "W", "X", "Y", "Z">>
Digits == {"0", "1", "2", "3", "4", "5", "6", "7", "8", "9"}

IsLetter(ch) == ch \in Range(LowerLetters) \cup Range(UpperLetters)
IsDigit(ch) == ch \in Digits
IsSpace(ch) == ch = " "

\* String.prototype.toLowerCase
ToLowerChar(ch) ==
  IF ch \in Range(UpperLetters)
  THEN LowerLetters[CHOOSE i \in DOMAIN UpperLetters : UpperLetters[i] = ch]
  ELSE ch
ToLowerCase(name) == [i \in DOMAIN name |-> ToLowerChar(name[i])]

\* String.prototype.trim
RECURSIVE TrimStart(_)
TrimStart(name) ==
  IF name # <<>> /\ IsSpace(Head(name)) THEN TrimStart(Tail(name)) ELSE name
RECURSIVE TrimEnd(_)
TrimEnd(name) ==
  IF name # <<>> /\ IsSpace(Last(name)) THEN TrimEnd(Front(name)) ELSE name
Trim(name) == TrimEnd(TrimStart(name))

Valid == [isValid |-> TRUE]
Invalid(text, arg) == [isValid |-> FALSE, error |-> [text |-> text, arg |-> arg]]

(***************************************************************************)
(* CLIService.validateProjectName, argument-only variant: part_002:40-81   *)
(***************************************************************************)
MaxNameLength == 50

\* part_002:72
reservedNames ==
  { <<"n", "o", "d", "e", "_", "m", "o", "d", "u", "l", "e", "s">>,
    <<"s", "r", "c">>, <<"d", "i", "s", "t">>, <<"b", "u", "i", "l", "d">>,
    <<"t", "e", "s", "t">>, <<"t", "e", "s", "t", "s">> }

\* /^[a-zA-Z0-9_-]+$/
validNameRegex(name) ==
  /\ name # <<>>
  /\ \A i \in DOMAIN name : IsLetter(name[i]) \/ IsDigit(name[i]) \/ name[i] \in {"_", "-"}

\* /^[a-zA-Z]/
StartsWithLetter(name) == name # <<>> /\ IsLetter(name[1])

validateProjectNameBasic(name) ==
  IF Len(name) = 0
  THEN Invalid("Project name cannot be empty", <<>>)
  ELSE IF ~validNameRegex(name)
  THEN Invalid("Project name can only contain letters, numbers, hyphens, and underscores", <<>>)
  ELSE IF ~StartsWithLetter(name)
  THEN Invalid("Project name must start with a letter", <<>>)
  ELSE IF Len(name) > MaxNameLength
  THEN Invalid("Project name must be 50 characters or less", <<>>)
  ELSE IF ToLowerCase(name) \in reservedNames
  THEN Invalid("is a reserved name. Please choose a different name.", name)
  ELSE Valid

(***************************************************************************)
(* CLIService.validateProjectName, interactive variant: part_003:128-153.  *)
(* It delegates to the validate-npm-package-name library (part_003:4,135), *)
(* modelled here by that library's rules.                                  *)
(***************************************************************************)
MaxNpmNameLength == 214

npmBlacklist ==
  { <<"n", "o", "d", "e", "_", "m", "o", "d", "u", "l", "e", "s">>,
    <<"f", "a", "v", "i", "c", "o", "n", ".", "i", "c", "o">> }

\* core module names (an excerpt of the list the library consults)
npmBuiltins ==
  { <<"f", "s">>, <<"o", "s">>, <<"h", "t", "t", "p">>, <<"p", "a", "t", "h">>,
    <<"u", "t", "i", "l">>, <<"e", "v", "e", "n", "t", "s">> }

\* encodeURIComponent leaves exactly these characters unchanged
UrlSafeChar(ch) ==
  IsLetter(ch) \/ IsDigit(ch) \/ ch \in {"-", "_", ".", "!", "~", "*", "'", "(", ")"}
UrlSafe(name) == \A i \in DOMAIN name : UrlSafeChar(name[i])

\* /^(?:@([^/]+?)[/])?([^/]+?)$/ with URL-safe user and package parts
ScopedUrlSafe(name) ==
  /\ Len(name) >= 4
  /\ name[1] = "@"
  /\ \E k \in 3..(Len(name) - 1) :
       /\ name[k] = "/"
       /\ UrlSafe(SubSeq(name, 2, k - 1))
       /\ UrlSafe(SubSeq(name, k + 1, Len(name)))

npmErrors(name) ==
  (IF Len(name) = 0 THEN <<"name length must be greater than zero">> ELSE <<>>) \o
  (IF name # <<>> /\ name[1] = "." THEN <<"name cannot start with a period">> ELSE <<>>) \o
  (IF name # <<>> /\ name[1] = "_" THEN <<"name cannot start with an underscore">> ELSE <<>>) \o
  (IF Trim(name) # name THEN <<"name cannot contain leading or trailing spaces">> ELSE <<>>) \o
  (IF ToLowerCase(name) \in npmBlacklist THEN <<"is a blacklisted name">> ELSE <<>>) \o
  (IF ~UrlSafe(name) /\ ~ScopedUrlSafe(name)
   THEN <<"name can only contain URL-friendly characters">> ELSE <<>>)

npmWarnings(name) ==
  (IF ToLowerCase(name) \in npmBuiltins THEN <<"is a core module name">> ELSE <<>>) \o
  (IF Len(name) > MaxNpmNameLength
   THEN <<"name can no longer contain more than 214 characters">> ELSE <<>>) \o
  (IF ToLowerCase(name) # name
   THEN <<"name can no longer contain capital letters">> ELSE <<>>) \o
  (IF \E i \in DOMAIN name :
        /\ name[i] \in {"~", "'", "!", "(", ")", "*"}
        /\ \A j \in i..Len(name) : name[j] # "/"
   THEN <<"name can no longer contain special characters">> ELSE <<>>)

\* validation.validForNewPackages
validForNewPackages(name) == npmErrors(name) = <<>> /\ npmWarnings(name) = <<>>

validateProjectNameNpm(name) ==
  IF Len(name) = 0
  THEN Invalid("Project name cannot be empty", <<>>)
  ELSE IF ~validForNewPackages(name)
  THEN Invalid("Invalid project name: ",
               IF npmErrors(name) # <<>> THEN npmErrors(name) ELSE npmWarnings(name))
  ELSE IF Len(name) > MaxNameLength
  THEN Invalid("Project name must be 50 characters or less", <<>>)
  ELSE Valid

validateProjectName(variant, name) ==
  IF variant = "basic" THEN validateProjectNameBasic(name) ELSE validateProjectNameNpm(name)

(***************************************************************************)
(* Inputs                                                                  *)
(***************************************************************************)
MyApi == <<"m", "y", "-", "a", "p", "i">>
Name123Project == <<"1", "2", "3", "p", "r", "o", "j", "e", "c", "t">>

\* names handed to CLIService.run; <<>> stands for a missing argument
CliNames ==
  { <<>>, <<" ">>, MyApi, <<" ">> \o MyApi \o <<" ">>, Name123Project,
    <<"s", "r", "c">>, <<"M", "y", "A", "p", "i">>, <<"m", "y", " ", "a", "p", "i">> }

\* choices offered by promptForConfiguration, part_003:63-111
PromptAnswers ==
  { [language |-> l, authentication |-> a, database |-> d, docker |-> k,
     cors |-> TRUE, validation |-> TRUE, testing |-> FALSE] :
      l \in Languages, a \in Authentications, d \in Databases, k \in BOOLEAN }

\* the command line with no operand, or with one
CliArgs == {<<>>} \cup {<<name>> : name \in CliNames}

NoValidation == [isValid |-> FALSE, error |-> [text |-> "", arg |-> <<>>]]

Message(kind, text, arg) == [kind |-> kind, stream |-> "stdout", text |-> text, arg |-> arg]
\* banner.js:62-69 showError and banner.js:27-57 showSuccess print with console.log
showError(text, arg) == Message("error", text, arg)
showSuccess(name) == Message("success", "SUCCESS! Your Express server has been generated", name)

(***************************************************************************)
(* Initial states                                                          *)
(***************************************************************************)
Blank ==
  /\ config = EmptyFn
  /\ dirs = {}
  /\ written = EmptyFn
  /\ spinner = "idle"
  /\ templates = <<>>
  /\ validation = NoValidation
  /\ install = "none"
  /\ shown = <<>>
  /\ exitCode = NoExit

\* a caller of the library: new ExpressGenerator(name, config)
Init ==
  /\ entry = "api"
  /\ cliVariant = "none"
  /\ argv = <<>>
  /\ argName = MyApi
  /\ projectName = MyApi
  /\ rawConfig \in RawConfigs
  /\ pc = "construct"
  /\ Blank

\* the command line: express-gen [project-name]
InitCLI ==
  /\ entry = "cli"
  /\ cliVariant \in {"basic", "interactive"}
  /\ argv \in CliArgs
  /\ argName = <<>>
  /\ projectName = <<>>
  /\ rawConfig = EmptyFn
  /\ pc = "parse"
  /\ Blank

(***************************************************************************)
(* ExpressGenerator                                                        *)
(***************************************************************************)
\* constructor, expressGenerator.js:8-21
Construct ==
  /\ pc = "construct"
  /\ config' = NormalizeConfig(rawConfig)
  /\ pc' = "generate"
  /\ UNCHANGED <<entry, cliVariant, argv, argName, projectName, rawConfig, dirs, written,
                 spinner, templates, validation, install, shown, exitCode>>

\* TemplateService.getTemplateFiles(config) applied to the constructed configuration
GetTemplateFiles ==
  /\ pc = "generate"
  /\ entry = "api"
  /\ templates' = getTemplateFiles(config)
  /\ pc' = "resolved"
  /\ UNCHANGED <<entry, cliVariant, argv, argName, projectName, rawConfig, config, dirs,
                 written, spinner, validation, install, shown, exitCode>>

GenFrame == UNCHANGED <<entry, cliVariant, argv, argName, projectName, rawConfig, config,
                        templates, validation, install, shown, exitCode>>

\* generate(), lines 24-27: start the spinner, createProjectStructure (lines 43-70)
CreateProjectStructure ==
  /\ pc = "generate"
  /\ spinner' = "spinning"
  /\ dirs' = dirs \cup Range(Directories(config))
  /\ pc' = "createConfigFiles"
  /\ UNCHANGED written
  /\ GenFrame

\* createConfigFiles, lines 72-98
CreateConfigFiles ==
  /\ pc = "createConfigFiles"
  /\ LET files == ConfigFiles(config, projectName)
     IN written' = WriteAll(written, files, Len(files))
  /\ pc' = "createSourceFiles"
  /\ UNCHANGED <<dirs, spinner>>
  /\ GenFrame

\* generate(), lines 31-33: if (this.config.docker) this.createDockerFiles()
AfterSourceFilesNoDocker(c) == "succeed"

AfterSourceFiles(c) == IF c.docker = TRUE THEN "createDockerFiles" ELSE "succeed"

\* createSourceFiles, lines 100-147, then the test of line 31
CreateSourceFiles ==
  /\ pc = "createSourceFiles"
  /\ LET sourceFiles == SourceFiles(config, projectName)
     IN written' = WriteAll(written, sourceFiles, Len(sourceFiles))
  /\ pc' = AfterSourceFiles(config)
  /\ UNCHANGED <<dirs, spinner>>
  /\ GenFrame

\* createDockerFiles, lines 1099-1109
CreateDockerFiles ==
  /\ pc = "createDockerFiles"
  /\ LET dockerFiles == DockerFiles(config, projectName)
     IN written' = WriteAll(written, dockerFiles, Len(dockerFiles))
  /\ pc' = "succeed"
  /\ UNCHANGED <<dirs, spinner>>
  /\ GenFrame

\* generate(), lines 35-36: spinner.succeed, return true
Succeed ==
  /\ pc = "succeed"
  /\ spinner' = "succeed"
  /\ pc' = "generated"
  /\ UNCHANGED <<dirs, written>>
  /\ GenFrame

\* the entries a phase is about to write
Pending ==
  CASE pc = "createConfigFiles" -> ConfigFiles(config, projectName)
    [] pc = "createSourceFiles" -> SourceFiles(config, projectName)
    [] pc = "createDockerFiles" -> DockerFiles(config, projectName)
    [] OTHER -> <<>>

\* fs.mkdirSync throws on directory k+1: generate() catches (lines 37-39),
\* fails the spinner and rethrows
MkdirThrows ==
  /\ pc = "generate"
  /\ \E k \in 0..(Len(Directories(config)) - 1) :
       dirs' = dirs \cup {Directories(config)[i] : i \in 1..k}
  /\ spinner' = "fail"
  /\ pc' = "thrown"
  /\ UNCHANGED written
  /\ GenFrame

\* fse.writeFileSync throws on entry k+1 of the phase: same catch block
WriteThrowsSwallowed ==
  /\ pc \in {"createConfigFiles", "createSourceFiles", "createDockerFiles"}
  /\ \E k \in 0..(Len(Pending) - 1) : written' = WriteAll(written, Pending, k)
  /\ spinner' = "fail"
  /\ pc' = "generated"
  /\ UNCHANGED dirs
  /\ GenFrame

WriteThrows ==
  /\ pc \in {"createConfigFiles", "createSourceFiles", "createDockerFiles"}
  /\ \E k \in 0..(Len(Pending) - 1) : written' = WriteAll(written, Pending, k)
  /\ spinner' = "fail"
  /\ pc' = "thrown"
  /\ UNCHANGED dirs
  /\ GenFrame

(***************************************************************************)
(* The express-gen command, part_004                                       *)
(***************************************************************************)
\* commander reports a missing required argument on standard error and exits
MissingArgument ==
  [kind |-> "error", stream |-> "stderr",
   text |-> "error: missing required argument 'project-name'", arg |-> <<>>]

\* part_004:7-14, 24: program.argument('<project-name>').action(run), program.parse
ProgramParse ==
  /\ pc = "parse"
  /\ IF argv = <<>>
     THEN /\ shown' = Append(shown, MissingArgument)
          /\ exitCode' = 1
          /\ pc' = "exited"
          /\ UNCHANGED argName
     ELSE /\ argName' = argv[1]
          /\ pc' = "run"
          /\ UNCHANGED <<shown, exitCode>>
  /\ UNCHANGED <<entry, cliVariant, argv, projectName, rawConfig, config, dirs, written,
                 spinner, templates, validation, install>>

(***************************************************************************)
(* CLIService.run                                                          *)
(***************************************************************************)
CliFrame == UNCHANGED <<entry, cliVariant, argv, argName, config, dirs, written, spinner,
                        templates>>

\* process.exit(code) after the messages msgs
Exit(code, msgs) ==
  /\ shown' = shown \o msgs
  /\ exitCode' = code
  /\ pc' = "exited"

\* part_002:8-26: the argument-only run, up to new ExpressGenerator(name)
RunBasic ==
  /\ pc = "run"
  /\ cliVariant = "basic"
  /\ LET name == Trim(argName)
         validName == validateProjectNameBasic(name)
     IN IF name = <<>>
        THEN /\ Exit(1, <<showError("Project name is required!", <<>>)>>)
             /\ UNCHANGED <<projectName, rawConfig, validation>>
        ELSE /\ validation' = validName
             /\ IF ~validName.isValid
                THEN /\ Exit(1, <<showError(validName.error.text, validName.error.arg)>>)
                     /\ UNCHANGED <<projectName, rawConfig>>
                ELSE /\ projectName' = name
                     /\ rawConfig' = EmptyFn
                     /\ pc' = "construct"
                     /\ UNCHANGED <<shown, exitCode>>
  /\ UNCHANGED install
  /\ CliFrame

\* part_003:10-37: the interactive run, up to promptForConfiguration.  Without
\* an argument inquirer re-asks until validateProjectName accepts the answer.
RunInteractive ==
  /\ pc = "run"
  /\ cliVariant = "interactive"
  /\ LET name == Trim(argName)
         validName == validateProjectNameNpm(name)
     IN IF name = <<>>
        THEN /\ \E input \in CliNames :
                  /\ validateProjectNameNpm(Trim(input)).isValid
                  /\ validation' = validateProjectNameNpm(Trim(input))
                  /\ projectName' = Trim(input)
             /\ pc' = "promptForConfiguration"
             /\ UNCHANGED <<shown, exitCode>>
        ELSE /\ validation' = validName
             /\ IF ~validName.isValid
                THEN /\ Exit(1, <<showError(validName.error.text, validName.error.arg)>>)
                     /\ UNCHANGED projectName
                ELSE /\ projectName' = name
                     /\ pc' = "promptForConfiguration"
                     /\ UNCHANGED <<shown, exitCode>>
  /\ UNCHANGED <<rawConfig, install>>
  /\ CliFrame

\* part_003:60-123
PromptForConfiguration ==
  /\ pc = "promptForConfiguration"
  /\ \E answers \in PromptAnswers : rawConfig' = answers
  /\ pc' = "construct"
  /\ UNCHANGED <<projectName, validation, install, shown, exitCode>>
  /\ CliFrame

\* part_002:29 / part_003:46: showSuccess after generate() returned
ShowSuccess ==
  /\ pc = "generated"
  /\ entry = "cli"
  /\ shown' = Append(shown, showSuccess(projectName))
  /\ IF cliVariant = "basic"
     THEN pc' = "exited" /\ exitCode' = 0
     ELSE pc' = "promptForNpmInstall" /\ UNCHANGED exitCode
  /\ UNCHANGED <<projectName, rawConfig, validation, install>>
  /\ CliFrame

\* part_002:31-34 / part_003:51-54: the catch block of run
CatchError ==
  /\ pc = "thrown"
  /\ entry = "cli"
  /\ Exit(1, <<showError("Failed to generate project: ", <<>>)>>)
  /\ UNCHANGED <<projectName, rawConfig, validation, install>>
  /\ CliFrame

\* part_003:158-177, 207-214: the confirm prompt; spawn npm install on yes
PromptForNpmInstall ==
  /\ pc = "promptForNpmInstall"
  /\ \E installDependencies \in BOOLEAN :
       IF installDependencies
       THEN install' = "pending" /\ pc' = "installing" /\ UNCHANGED exitCode
       ELSE install' = "none" /\ pc' = "exited" /\ exitCode' = 0
  /\ UNCHANGED <<projectName, rawConfig, validation, shown>>
  /\ CliFrame

\* part_003:200-205: the child's 'error' event resolves the promise
NpmErrorRejects ==
  /\ pc = "installing"
  /\ install = "pending"
  /\ install' = "rejected"
  /\ pc' = "thrown"
  /\ UNCHANGED <<projectName, rawConfig, validation, shown, exitCode>>
  /\ CliFrame

NpmError ==
  /\ pc = "installing"
  /\ install = "pending"
  /\ install' = "resolved"
  /\ UNCHANGED <<pc, projectName, rawConfig, validation, shown, exitCode>>
  /\ CliFrame

\* part_003:185-198: the child's 'close' event resolves the promise, whatever
\* the code; run returns and the process ends
NpmClose ==
  /\ pc = "installing"
  /\ \E code \in {0, 1} : install' = "resolved"
  /\ pc' = "exited"
  /\ exitCode' = 0
  /\ UNCHANGED <<projectName, rawConfig, validation, shown>>
  /\ CliFrame

(***************************************************************************)
(* validateProjectName applied to arbitrary names                          *)
(***************************************************************************)
MaxLen == 2
NameAlphabet == {"a", "B", "1", "-", "_", ".", " "}

Seqs(S, n) == UNION {[1..k -> S] : k \in 0..n}
Repeat(ch, n) == [i \in 1..n |-> ch]

Names ==
  Seqs(NameAlphabet, MaxLen) \cup reservedNames \cup npmBlacklist \cup CliNames \cup
  { <<"S", "R", "C">>, <<"T", "e", "s", "t">>, <<"h", "t", "t", "p">>,
    <<"@", "a", "/", "b">>, <<"m", "y", "_", "a", "p", "i", "2">>,
    Repeat("a", MaxNameLength), Repeat("a", MaxNameLength + 1) }

InitName ==
  /\ entry = "validate"
  /\ cliVariant \in {"basic", "interactive"}
  /\ argv = <<>>
  /\ argName \in Names
  /\ projectName = <<>>
  /\ rawConfig = EmptyFn
  /\ pc = "validate"
  /\ Blank

ValidateProjectName ==
  /\ pc = "validate"
  /\ validation' = validateProjectName(cliVariant, argName)
  /\ pc' = "validated"
  /\ UNCHANGED <<entry, cliVariant, argv, argName, projectName, rawConfig, config, dirs,
                 written, spinner, templates, install, shown, exitCode>>

(***************************************************************************)
(* Specifications                                                          *)
(***************************************************************************)
Generate ==
  \/ CreateProjectStructure
  \/ CreateConfigFiles
  \/ CreateSourceFiles
  \/ CreateDockerFiles
  \/ Succeed
  \/ MkdirThrows
  \/ WriteThrows

Next ==
  \/ Construct
  \/ GetTemplateFiles
  \/ Generate

Spec == Init /\ [][Next]_vars

NextCLI ==
  \/ ProgramParse
  \/ RunBasic
  \/ RunInteractive
  \/ PromptForConfiguration
  \/ Construct
  \/ Generate
  \/ ShowSuccess
  \/ CatchError
  \/ PromptForNpmInstall
  \/ NpmError
  \/ NpmClose

SpecCLI == InitCLI /\ [][NextCLI]_vars

NextName == ValidateProjectName

SpecName == InitName /\ [][NextName]_vars

(***************************************************************************)
(* Vocabulary of the properties                                            *)
(***************************************************************************)
Constructed == pc \notin {"parse", "run", "promptForConfiguration", "construct", "validate",
                          "validated"} /\ config # EmptyFn
Generated == pc = "generated"
Resolved == pc = "resolved"

WrittenPaths == DOMAIN written
Manifest == written[PackageJson].data
Dependencies == DOMAIN Manifest.dependencies
DevDependencies == DOMAIN Manifest.devDependencies

\* the target of a relative require/import: the directory of the requiring
\* file, moved along the segments of the specifier
RECURSIVE Walk(_, _)
Walk(dir, segs) ==
  IF segs = <<>> THEN dir
  ELSE IF Head(segs) = "." THEN Walk(dir, Tail(segs))
  ELSE IF Head(segs) = ".." THEN Walk(Front(dir), Tail(segs))
  ELSE Walk(Append(dir, Head(segs)), Tail(segs))

ModuleExtensions == {"js", "ts", "json"}

\* module resolution: <target>.<ext> or <target>/index.<ext>
Candidates(from, spec) ==
  LET target == Walk(Dirname(from), spec)
  IN {Front(target) \o <<Last(target) \o "." \o e>> : e \in ModuleExtensions} \cup
     {target \o <<"index." \o e>> : e \in ModuleExtensions}

Dangling ==
  {<<p, r>> \in UNION {{<<q, x>> : x \in written[q].rel} : q \in WrittenPaths} :
     Candidates(p, r) \cap WrittenPaths = {}}

RequiredPackages == UNION {written[p].pkgs : p \in WrittenPaths}

\* the path of a language-dependent file, spelled out per language
Lang(dir, js, ts) == IF config.language = "typescript" THEN dir \o <<ts>> ELSE dir \o <<js>>

ServerPath == Lang(<<>>, "server.js", "server.ts")
DatabaseConfigPath == Lang(<<"src", "config">>, "database.js", "database.ts")
UserModelPath == Lang(<<"src", "models">>, "User.js", "User.ts")
AuthMiddlewarePath == Lang(<<"src", "middleware">>, "auth.js", "auth.ts")
TsConfigPath == <<"tsconfig.json">>
TypesPath == <<"src", "types", "index.ts">>
JestConfigPath == <<"jest.config.js">>
UserTestPath == Lang(<<"tests", "unit">>, "user.test.js", "user.test.ts")
ApiTestPath == Lang(<<"tests", "integration">>, "api.test.js", "api.test.ts")
DockerPaths == {<<"Dockerfile">>, <<"docker-compose.yml">>, <<".dockerignore">>}

AlwaysPaths ==
  { <<"package.json">>, <<".env.example">>, <<".gitignore">>, <<"README.md">>,
    ServerPath,
    Lang(<<"src">>, "app.js", "app.ts"),
    Lang(<<"src", "config">>, "environment.js", "environment.ts"),
    Lang(<<"src", "middleware">>, "errorHandler.js", "errorHandler.ts"),
    Lang(<<"src", "routes">>, "index.js", "index.ts"),
    Lang(<<"src", "routes">>, "userRoutes.js", "userRoutes.ts"),
    Lang(<<"src", "controllers">>, "userController.js", "userController.ts"),
    Lang(<<"src", "services">>, "userService.js", "userService.ts"),
    Lang(<<"src", "utils">>, "helpers.js", "helpers.ts"),
    Lang(<<"src", "utils">>, "constants.js", "constants.ts") }

PersistenceLibraries == {"mongoose", "sequelize", "pg", "mysql2", "sqlite3"}
CredentialLibraries == {"jsonwebtoken", "bcryptjs", "express-session"}
TypeStubs == {"@types/node", "@types/express", "@types/cors", "@types/bcryptjs",
              "@types/jsonwebtoken", "@types/express-session", "@types/pg",
              "@types/jest", "@types/supertest"}

\* a group of files is written together or not at all
AllOf(paths) == paths \subseteq WrittenPaths
NoneOf(paths) == paths \cap WrittenPaths = {}

(***************************************************************************)
(* C1  Referential integrity: in a project generated for a valid           *)
(* configuration every relative require/import of a written file resolves  *)
(* to a written file.                                                      *)
(***************************************************************************)
C1_NoDanglingImport ==
  (Generated /\ ValidEnums(config)) => Dangling = {}

(***************************************************************************)
(* C2  Feature/manifest agreement: for a valid configuration the files     *)
(* gated on a feature are written iff the manifest entries gated on that   *)
(* feature are declared (database, authentication, typescript, testing).   *)
(***************************************************************************)
C2_FeatureManifestAgreement ==
  (Generated /\ ValidEnums(config)) =>
    /\ AllOf({DatabaseConfigPath, UserModelPath}) <=> (Dependencies \cap PersistenceLibraries # {})
    /\ NoneOf({DatabaseConfigPath, UserModelPath}) <=> (Dependencies \cap PersistenceLibraries = {})
    /\ AllOf({AuthMiddlewarePath}) <=> (Dependencies \cap CredentialLibraries # {})
    /\ AllOf({TsConfigPath, TypesPath}) <=>
         ("typescript" \in DevDependencies /\ DevDependencies \cap TypeStubs # {})
    /\ NoneOf({TsConfigPath, TypesPath}) <=>
         ("typescript" \notin DevDependencies /\ DevDependencies \cap TypeStubs = {})
    /\ AllOf({JestConfigPath, UserTestPath, ApiTestPath}) <=>
         ({"jest", "supertest"} \subseteq DevDependencies)
    /\ NoneOf({JestConfigPath, UserTestPath, ApiTestPath}) <=>
         ({"jest", "supertest"} \cap DevDependencies = {})

C2_Witness ==
  /\ Generated
  /\ config.database = "mysql" /\ config.authentication = "session"
  /\ config.language = "typescript" /\ config.testing = TRUE
  /\ AllOf({DatabaseConfigPath, UserModelPath, AuthMiddlewarePath, TsConfigPath,
            TypesPath, JestConfigPath, UserTestPath, ApiTestPath})
  /\ {"sequelize", "mysql2", "express-session"} \subseteq Dependencies
  /\ {"typescript", "jest", "supertest"} \subseteq DevDependencies

(***************************************************************************)
(* C3  No required dependency is missing: every third-party package        *)
(* required by a written file is declared in dependencies or               *)
(* devDependencies of the written package.json.                            *)
(***************************************************************************)
C3_NoMissingDependency ==
  (Generated /\ ValidEnums(config)) => RequiredPackages \subseteq Declared(Manifest)

(***************************************************************************)
(* C4  No declared dependency is unused: every runtime dependency of the   *)
(* written package.json is required by at least one written file.          *)
(***************************************************************************)
C4_NoUnusedDependency ==
  (Generated /\ ValidEnums(config)) => Dependencies \subseteq RequiredPackages

(***************************************************************************)
(* C5  Defaults.  As claimed: an unset field gets language=javascript,     *)
(* authentication=jwt, database=mongodb, cors=true, validation=true,       *)
(* testing=false, docker=false.                                            *)
(***************************************************************************)
ClaimedDefaults ==
  [language |-> "javascript", authentication |-> "jwt", database |-> "mongodb",
   cors |-> TRUE, validation |-> TRUE, testing |-> FALSE, docker |-> FALSE]

C6_UnknownEnumRejected ==
  (Constructed /\ ~ValidEnums(config)) =>
    /\ dirs = {}
    /\ written = EmptyFn
    /\ pc \notin {"createConfigFiles", "createSourceFiles", "createDockerFiles",
                  "succeed", "generated"}
    /\ ~(/\ DatabaseConfigPath \in WrittenPaths
         /\ PackageJson \in WrittenPaths
         /\ Dependencies \cap PersistenceLibraries = {})

(***************************************************************************)
(* C7  validateProjectName accepts a name iff it is non-empty, matches     *)
(* ^[A-Za-z][A-Za-z0-9_-]*$, is at most 50 long and is not a reserved      *)
(* name; a rejected name comes with an error message.                      *)
(***************************************************************************)
ClaimedAccepts(name) ==
  /\ name # <<>>
  /\ IsLetter(name[1])
  /\ \A i \in DOMAIN name : IsLetter(name[i]) \/ IsDigit(name[i]) \/ name[i] \in {"_", "-"}
  /\ Len(name) <= 50
  /\ name \notin reservedNames

C7_ValidateProjectName ==
  pc = "validated" =>
    /\ validation.isValid <=> ClaimedAccepts(argName)
    /\ ~validation.isValid => validation.error.text # ""

(***************************************************************************)
(* C8  A name given as the command argument that fails validation, and in  *)
(* particular "123project", makes run report a validation error and exit   *)
(* without constructing the generator or creating anything; for            *)
(* "123project" the error names the 'must start with a letter' rule.       *)
(***************************************************************************)
NothingGenerated ==
  config = EmptyFn /\ dirs = {} /\ written = EmptyFn /\ spinner = "idle"

ReportedError(text) ==
  pc = "exited" => /\ exitCode = 1
                   /\ \E i \in DOMAIN shown : shown[i].kind = "error" /\ shown[i].text = text
                   /\ \A i \in DOMAIN shown : shown[i].kind # "success"

C8_InvalidNameNeverGenerates ==
  /\ (entry = "cli" /\ Trim(argName) # <<>>
        /\ ~validateProjectName(cliVariant, Trim(argName)).isValid) =>
       /\ NothingGenerated
       /\ ReportedError(validateProjectName(cliVariant, Trim(argName)).error.text)
  /\ (entry = "cli" /\ Trim(argName) = Name123Project) =>
       /\ NothingGenerated
       /\ ReportedError("Project name must start with a letter")

(***************************************************************************)
(* C9  Conditional inclusion is exact in both resolvers (the paths         *)
(* ExpressGenerator writes and the targets of getTemplateFiles): auth      *)
(* middleware iff authentication # none; database config and User model    *)
(* iff database # none; types and tsconfig iff typescript; the three       *)
(* Docker files iff docker.                                                *)
(***************************************************************************)
ExactInclusion(paths) ==
  /\ AuthMiddlewarePath \in paths <=> config.authentication # "none"
  /\ DatabaseConfigPath \in paths <=> config.database # "none"
  /\ UserModelPath \in paths <=> config.database # "none"
  /\ TypesPath \in paths <=> config.language = "typescript"
  /\ TsConfigPath \in paths <=> config.language = "typescript"
  /\ \A d \in DockerPaths : d \in paths <=> config.docker = TRUE
  /\ Cardinality(paths \cap DockerPaths) = IF config.docker = TRUE THEN 3 ELSE 0

C9_ConditionalInclusion ==
  /\ (Generated /\ ValidEnums(config)) => ExactInclusion(WrittenPaths)
  /\ (Resolved /\ ValidEnums(config)) => ExactInclusion(Targets(templates))

C9_Witness ==
  /\ Generated
  /\ config.database = "none" /\ config.authentication = "none"
  /\ config.docker = TRUE /\ config.language = "javascript"
  /\ NoneOf({DatabaseConfigPath, AuthMiddlewarePath, UserModelPath, TypesPath, TsConfigPath})
  /\ AllOf(DockerPaths)

(***************************************************************************)
(* C10  Always-included files: for a valid configuration both resolvers    *)
(* contain package.json, .env.example, .gitignore, README.md, the server   *)
(* entry point, app, environment config, error handler, route index, user  *)
(* routes, controller, service, helpers and constants, with the extension  *)
(* of the chosen language.                                                 *)
(***************************************************************************)
C10_AlwaysIncluded ==
  /\ (Generated /\ ValidEnums(config)) => AlwaysPaths \subseteq WrittenPaths
  /\ (Resolved /\ ValidEnums(config)) => AlwaysPaths \subseteq Targets(templates)

C10_Witness ==
  /\ Resolved
  /\ config.language = "typescript"
  /\ config.database = "none" /\ config.authentication = "none"
  /\ config.testing = FALSE /\ config.docker = FALSE
  /\ <<"src", "routes", "userRoutes.ts">> \in Targets(templates)
  /\ Cardinality(Targets(templates)) = 16

(***************************************************************************)
(* C11  Scenario A as claimed: for "my-api" with javascript, jwt, mongodb  *)
(* and default features the files written are exactly package.json,        *)
(* .env.example, .gitignore, README.md, server.js, src/app.js, the         *)
(* environment and database config, the auth middleware, the error         *)
(* handler, the route index, user routes, controller, service, model,      *)
(* helpers and constants, 16 files in all; the manifest has a persistence  *)
(* and a credential dependency and no compiler.                            *)
(***************************************************************************)
ScenarioAPaths ==
  { <<"package.json">>, <<".env.example">>, <<".gitignore">>, <<"README.md">>,
    <<"server.js">>, <<"src", "app.js">>,
    <<"src", "config", "environment.js">>, <<"src", "config", "database.js">>,
    <<"src", "middleware", "auth.js">>, <<"src", "middleware", "errorHandler.js">>,
    <<"src", "routes", "index.js">>, <<"src", "routes", "userRoutes.js">>,
    <<"src", "controllers", "userController.js">>,
    <<"src", "services", "userService.js">>, <<"src", "models", "User.js">>,
    <<"src", "utils", "helpers.js">>, <<"src", "utils", "constants.js">> }

TestingPaths ==
  { <<"jest.config.js">>, <<"tests", "unit", "user.test.js">>,
    <<"tests", "integration", "api.test.js">> }

FeatureFields == {"cors", "validation", "testing", "docker"}

ScenarioA ==
  /\ Generated
  /\ projectName = MyApi
  /\ config.language = "javascript"
  /\ config.authentication = "jwt"
  /\ config.database = "mongodb"

ScenarioAManifest ==
  /\ Dependencies \cap PersistenceLibraries # {}
  /\ Dependencies \cap CredentialLibraries # {}
  /\ "typescript" \notin Declared(Manifest)

TestingOff(c) == [c EXCEPT !.testing = FALSE]

TestingPackages == {"jest", "supertest", "@types/jest", "@types/supertest", "ts-jest"}
TestingScripts == {"test", "test:watch", "test:coverage"}

\* function g is function f plus keys taken from the set added
Extends(f, g, added) ==
  /\ DOMAIN f \subseteq DOMAIN g
  /\ (DOMAIN g) \ (DOMAIN f) \subseteq added
  /\ \A k \in DOMAIN f : g[k] = f[k]

TestingAddsToProject ==
  LET off == WriteAll(EmptyFn, ProjectFiles(TestingOff(config), projectName),
                      Len(ProjectFiles(TestingOff(config), projectName)))
      m == off[PackageJson].data
  IN /\ WrittenPaths \ DOMAIN off = {JestConfigPath, UserTestPath, ApiTestPath}
     /\ Cardinality(WrittenPaths \ DOMAIN off) = 3
     /\ DOMAIN off \subseteq WrittenPaths
     /\ \A p \in (DOMAIN off) \ {PackageJson} : written[p] = off[p]
     /\ Extends(m.devDependencies, Manifest.devDependencies, TestingPackages)
     /\ {"jest", "supertest"} \subseteq DevDependencies \ DOMAIN m.devDependencies
     /\ Extends(m.scripts, Manifest.scripts, TestingScripts)
     /\ "test" \in (DOMAIN Manifest.scripts) \ (DOMAIN m.scripts)
     /\ Manifest.dependencies = m.dependencies
     /\ Manifest.name = m.name /\ Manifest.version = m.version /\ Manifest.main = m.main

TestingAddsToTemplates ==
  LET off == Targets(getTemplateFiles(TestingOff(config)))
  IN /\ Targets(templates) \ off = {JestConfigPath, UserTestPath, ApiTestPath}
     /\ off \subseteq Targets(templates)

C12_TestingToggle ==
  /\ (Generated /\ ValidEnums(config) /\ config.testing = TRUE) => TestingAddsToProject
  /\ (Resolved /\ ValidEnums(config) /\ config.testing = TRUE) => TestingAddsToTemplates

(***************************************************************************)
(* C13  Scripts: every written package.json has a start and a dev script;  *)
(* it has a build script iff the language is typescript; start runs        *)
(* dist/server.js iff the language is typescript and server.js otherwise;  *)
(* it has a test script iff testing is on.                                 *)
(***************************************************************************)
ScriptNames == DOMAIN Manifest.scripts

C13_Scripts ==
  PackageJson \in WrittenPaths =>
    /\ {"start", "dev"} \subseteq ScriptNames
    /\ "build" \in ScriptNames <=> config.language = "typescript"
    /\ Manifest.scripts.start = "node dist/server.js" <=> config.language = "typescript"
    /\ Manifest.scripts.start = "node server.js" <=> config.language # "typescript"
    /\ "test" \in ScriptNames <=> config.testing = TRUE

C13_Witness ==
  /\ Generated
  /\ config.language = "typescript" /\ config.testing = TRUE
  /\ {"start", "dev", "build", "test"} \subseteq ScriptNames
  /\ Manifest.scripts.start = "node dist/server.js"
  /\ Manifest.main = "dist/server.js"

(***************************************************************************)
(* C14  Middleware dependencies as claimed: helmet and morgan are always   *)
(* declared; cors iff the cors flag; express-validator iff the validation  *)
(* flag; express-rate-limit only when a rate-limiting flag of the          *)
(* configuration is enabled.                                               *)
(***************************************************************************)
RateLimitFlagEnabled(c) == "rateLimit" \in DOMAIN c /\ c["rateLimit"] = TRUE

BaselineAndGatedMiddleware ==
  /\ {"helmet", "morgan"} \subseteq Dependencies
  /\ "cors" \in Dependencies <=> config.cors = TRUE
  /\ "express-validator" \in Dependencies <=> config.validation = TRUE

C14_RateLimitGated ==
  PackageJson \in WrittenPaths =>
    /\ BaselineAndGatedMiddleware
    /\ "express-rate-limit" \in Dependencies => RateLimitFlagEnabled(config)

(***************************************************************************)
(* C14 as amended: helmet, morgan and express-rate-limit are declared for  *)
(* every configuration (the configuration has the seven fields and no      *)
(* rate-limiting flag); cors iff the cors flag; express-validator iff the  *)
(* validation flag.                                                        *)
(***************************************************************************)
C14_MiddlewareDependencies ==
  PackageJson \in WrittenPaths =>
    /\ BaselineAndGatedMiddleware
    /\ "express-rate-limit" \in Dependencies
    /\ DOMAIN config = Fields

C14_Witness ==
  /\ Generated
  /\ config.cors = FALSE /\ config.validation = FALSE
  /\ {"helmet", "morgan", "express-rate-limit"} \subseteq Dependencies
  /\ {"cors", "express-validator"} \cap Dependencies = {}

(***************************************************************************)
(* C15  Driver selection: for a valid configuration the persistence        *)
(* libraries in dependencies are exactly those of the chosen database      *)
(* (mongodb: mongoose; postgresql: sequelize and pg; mysql: sequelize and  *)
(* mysql2; sqlite: sequelize and sqlite3; none: none), and the written     *)
(* database config and User model require a persistence library of that    *)
(* database and of no other.                                               *)
(***************************************************************************)
ClaimedDrivers(database) ==
  CASE database = "mongodb"    -> {"mongoose"}
    [] database = "postgresql" -> {"sequelize", "pg"}
    [] database = "mysql"      -> {"sequelize", "mysql2"}
    [] database = "sqlite"     -> {"sequelize", "sqlite3"}
    [] database = "none"       -> {}

UsesDriverOf(path, database) ==
  /\ written[path].pkgs \cap PersistenceLibraries # {}
  /\ written[path].pkgs \cap PersistenceLibraries \subseteq ClaimedDrivers(database)

C15_DriverSelection ==
  (Generated /\ ValidEnums(config)) =>
    /\ Dependencies \cap PersistenceLibraries = ClaimedDrivers(config.database)
    /\ config.database # "none" =>
         /\ UsesDriverOf(DatabaseConfigPath, config.database)
         /\ UsesDriverOf(UserModelPath, config.database)

(***************************************************************************)
(* C16  A project generated through the command line is testing-ready:     *)
(* jest.config.js is written, jest is a devDependency and the manifest     *)
(* has a test script.                                                      *)
(***************************************************************************)
C16_CliTestingReady ==
  (entry = "cli" /\ Generated) =>
    /\ JestConfigPath \in WrittenPaths
    /\ "jest" \in DevDependencies
    /\ "test" \in ScriptNames

(***************************************************************************)
(* C17  A failure is never reported as success.  Once a mkdir or a write   *)
(* has thrown, nothing more is created or written, the spinner has failed  *)
(* and generate() never returns; run shows the error and exits with code   *)
(* 1 without showing the success message.  The success message is shown    *)
(* only after every directory was created and every file written.          *)
(***************************************************************************)
Shown(kind) == \E i \in DOMAIN shown : shown[i].kind = kind

AllWritten ==
  /\ Range(Directories(config)) \subseteq dirs
  /\ written = WriteAll(EmptyFn, ProjectFiles(config, projectName),
                        Len(ProjectFiles(config, projectName)))

FailureIsFinal ==
  spinner = "fail" =>
    /\ pc \in {"thrown", "exited"}
    /\ ~AllWritten
    /\ ~Shown("success")
    /\ pc = "exited" => exitCode = 1 /\ Shown("error")

SuccessIsComplete ==
  Shown("success") => spinner = "succeed" /\ AllWritten

NothingAfterThrow ==
  spinner = "fail" => written' = written /\ dirs' = dirs /\ spinner' = "fail"

C17_FailureNeverSuccess ==
  /\ [](entry = "cli" => FailureIsFinal /\ SuccessIsComplete)
  /\ [][entry = "cli" => NothingAfterThrow]_vars

C17_Witness ==
  /\ entry = "cli"
  /\ pc = "exited"
  /\ spinner = "fail"
  /\ written # EmptyFn
  /\ PackageJson \in WrittenPaths /\ ServerPath \notin WrittenPaths
  /\ exitCode = 1
  /\ Shown("error") /\ ~Shown("success")

(***************************************************************************)
(* C18  Exit status and error channel: the process exits with code 0 only  *)
(* when generation succeeded; after a validation failure or a write        *)
(* failure it exits with a non-zero code and the error message is written  *)
(* to standard error, not to standard output.                              *)
(***************************************************************************)
ExitStatus ==
  /\ exitCode = 0 => spinner = "succeed" /\ AllWritten
  /\ spinner # "succeed" => exitCode # 0 /\ exitCode # NoExit

ErrorOnStderr ==
  /\ \E i \in DOMAIN shown : shown[i].kind = "error" /\ shown[i].stream = "stderr"
  /\ \A i \in DOMAIN shown : shown[i].kind = "error" => shown[i].stream # "stdout"

C18_ExitStatusAndChannel ==
  (entry = "cli" /\ pc = "exited") =>
    /\ ExitStatus
    /\ spinner # "succeed" => ErrorOnStderr

(***************************************************************************)
(* C19  The project-name argument is optional: a run of the command        *)
(* without a project name does not end before a valid name and the         *)
(* configuration have been collected interactively; the configuration      *)
(* handed to ExpressGenerator has all seven fields set; generate() is      *)
(* never called before a valid name and a complete configuration have      *)
(* been collected.                                                         *)
(***************************************************************************)
Collected ==
  /\ projectName # <<>>
  /\ validateProjectName(cliVariant, projectName).isValid
  /\ DOMAIN rawConfig = Fields

GenerateCalled ==
  \/ spinner # "idle"
  \/ pc \in {"createConfigFiles", "createSourceFiles", "createDockerFiles",
             "succeed", "generated", "thrown"}

C19_NameOptional ==
  entry = "cli" =>
    /\ (argv = <<>> /\ pc = "exited") => Collected
    /\ GenerateCalled => Collected

(***************************************************************************)
(* C20  Parent directories precede files: a file is written only when its  *)
(* parent directory has already been created, and the parent directory of  *)
(* every written path (tests/unit, tests/integration and src/types         *)
(* included) is one of the directories of createProjectStructure.          *)
(***************************************************************************)
ParentsCreated ==
  \A p \in WrittenPaths : Dirname(p) \in dirs /\ Dirname(p) \in Range(Directories(config))

WrittenIntoExistingDirectory ==
  \A p \in (DOMAIN written') \ (DOMAIN written) : Dirname(p) \in dirs

C20_ParentDirectoriesFirst ==
  /\ [](written # EmptyFn => ParentsCreated /\ Range(Directories(config)) \subseteq dirs)
  /\ [][WrittenIntoExistingDirectory]_vars

C20_Witness ==
  /\ Generated
  /\ config.language = "typescript" /\ config.testing = TRUE /\ config.docker = TRUE
  /\ {TypesPath, UserTestPath, ApiTestPath, <<"Dockerfile">>} \subseteq WrittenPaths
  /\ {<<>>, <<"src", "types">>, <<"tests", "unit">>, <<"tests", "integration">>} \subseteq dirs

(***************************************************************************)
(* C21  Totality: for every configuration with valid enum values and       *)
(* boolean flags the file maps of ExpressGenerator, the manifest and the   *)
(* template list of getTemplateFiles are computed to a complete result:    *)
(* every entry has a path and a content, no two entries share a path, the  *)
(* manifest has all its sections, every template has a source and a        *)
(* target; when no write fails generate() returns with everything written. *)
(***************************************************************************)
ContentVariants == {"source", "typed", "text", "json"}

WellFormedEntries(entries) ==
  /\ \A i \in DOMAIN entries :
       /\ DOMAIN entries[i] = {"path", "content"}
       /\ entries[i].path # <<>> /\ Last(entries[i].path) # ""
       /\ DOMAIN entries[i].content = {"variant", "pkgs", "rel", "data"}
       /\ entries[i].content.variant \in ContentVariants
  /\ Cardinality({entries[i].path : i \in DOMAIN entries}) = Len(entries)

WellFormedManifest(m) ==
  /\ DOMAIN m = {"name", "version", "main", "scripts", "dependencies", "devDependencies"}
  /\ m.name = projectName
  /\ \A section \in {"scripts", "dependencies", "devDependencies"} :
       \A k \in DOMAIN m[section] : m[section][k] # ""

WellFormedTemplates(ts) ==
  /\ \A i \in DOMAIN ts :
       /\ DOMAIN ts[i] = {"source", "target"}
       /\ ts[i].source # <<>> /\ ts[i].target # <<>>
  /\ Cardinality(Targets(ts)) = Len(ts)

BooleanFlags(c) == \A f \in FeatureFields : c[f] \in BOOLEAN

C21_Totality ==
  (Constructed /\ ValidEnums(config) /\ BooleanFlags(config)) =>
    /\ pc = "generate" =>
         /\ WellFormedEntries(ProjectFiles(config, projectName))
         /\ WellFormedManifest(getPackageJsonContent(config, projectName))
         /\ WellFormedTemplates(getTemplateFiles(config))
    /\ Generated => AllWritten /\ WellFormedManifest(Manifest)
    /\ Resolved => templates # <<>> /\ WellFormedTemplates(templates)

C21_Witness ==
  /\ Generated
  /\ config.language = "typescript" /\ config.authentication = "session"
  /\ config.database = "sqlite" /\ config.docker = TRUE /\ config.testing = TRUE
  /\ Cardinality(WrittenPaths) = 25
  /\ WellFormedManifest(Manifest)

(***************************************************************************)
(* C22  Determinism: the paths written, the content of each path and the   *)
(* package.json of a finished run, and the templates of getTemplateFiles,  *)
(* are a function of the project name and the configuration alone: any    *)
(* two runs with the same name and configuration, whatever the raw input   *)
(* and the entry point, end with the same output.                          *)
(***************************************************************************)
Output(c, name) ==
  WriteAll(EmptyFn, ProjectFiles(c, name), Len(ProjectFiles(c, name)))

C23_IdempotentDefaults ==
  Constructed =>
    /\ config = NormalizeConfig(rawConfig)
    /\ DOMAIN NormalizeConfig(config) = DOMAIN config
    /\ \A f \in DOMAIN config : NormalizeConfig(config)[f] = config[f]

C23_Witness ==
  /\ Constructed
  /\ rawConfig = [database |-> UnknownDatabase, testing |-> FALSE]
  /\ config # rawConfig
  /\ NormalizeConfig(config) = config
  /\ config.database = UnknownDatabase /\ config.testing = FALSE /\ config.cors = TRUE

(***************************************************************************)
(* C24  Content branch follows the language: every file ExpressGenerator   *)
(* writes with the language extension has typed-variant content when the   *)
(* language is typescript and source-variant content when it is            *)
(* javascript; every language-dependent template of getTemplateFiles       *)
(* comes from the typescript/ tree iff the language is typescript and      *)
(* from the javascript/ tree otherwise.                                    *)
(***************************************************************************)
LanguagePaths ==
  (AlwaysPaths \ {<<"package.json">>, <<".env.example">>, <<".gitignore">>, <<"README.md">>})
    \cup {DatabaseConfigPath, UserModelPath, AuthMiddlewarePath, UserTestPath, ApiTestPath}

ExpectedVariant == IF config.language = "typescript" THEN "typed" ELSE "source"
ExpectedTree == IF config.language = "typescript" THEN "typescript" ELSE "javascript"

TemplatesFollowLanguage ==
  \A i \in DOMAIN templates :
    templates[i].target \in LanguagePaths => Head(templates[i].source) = ExpectedTree

C24_ContentFollowsLanguage ==
  /\ (Generated /\ ValidEnums(config)) =>
       \A p \in WrittenPaths \cap LanguagePaths : written[p].variant = ExpectedVariant
  /\ (Resolved /\ ValidEnums(config)) => TemplatesFollowLanguage

(***************************************************************************)
(* A library caller that changes its own configuration object while the    *)
(* generator it constructed is running.  The constructor copied the keys   *)
(* into a new object (expressGenerator.js:11-20), so this.config is not    *)
(* the caller's object.  One change per run.                               *)
(***************************************************************************)
CallerMutatesAliased ==
  /\ entry = "api"
  /\ pc \in {"generate", "createConfigFiles", "createSourceFiles", "createDockerFiles",
             "succeed"}
  /\ config = NormalizeConfig(rawConfig)
  /\ \E f \in FeatureFields :
       rawConfig' = [g \in (DOMAIN rawConfig) \cup {f} |->
                       IF g = f THEN ~config[f] ELSE rawConfig[g]]
  /\ config' = NormalizeConfig(rawConfig')
  /\ UNCHANGED <<entry, cliVariant, argv, argName, pc, projectName, dirs, written,
                 spinner, templates, validation, install, shown, exitCode>>

CallerMutates ==
  /\ entry = "api"
  /\ pc \in {"generate", "createConfigFiles", "createSourceFiles", "createDockerFiles",
             "succeed"}
  /\ config = NormalizeConfig(rawConfig)
  /\ \E f \in FeatureFields :
       rawConfig' = [g \in (DOMAIN rawConfig) \cup {f} |->
                       IF g = f THEN ~config[f] ELSE rawConfig[g]]
  /\ UNCHANGED <<entry, cliVariant, argv, argName, pc, projectName, config, dirs, written,
                 spinner, templates, validation, install, shown, exitCode>>

NextCaller ==
  \/ Construct
  \/ Generate
  \/ CallerMutates

SpecCaller == Init /\ [][NextCaller]_vars

(***************************************************************************)
(* C25  The configuration is not mutated during generation: from the end   *)
(* of the constructor until generate() returns or throws, this.config and  *)
(* this.projectName keep their values, also when the caller changes the    *)
(* object it passed in; what is written is what the constructed            *)
(* configuration asks for.                                                 *)
(***************************************************************************)
ConfigurationKept ==
  Constructed => config' = config /\ projectName' = projectName

C25_ConfigurationNotMutated ==
  /\ [][ConfigurationKept]_vars
  /\ [](Generated => written = Output(config, projectName))

C25_Witness ==
  /\ Generated
  /\ rawConfig = [docker |-> TRUE]
  /\ config = NormalizeConfig(EmptyFn)
  /\ NoneOf(DockerPaths)

(***************************************************************************)
(* C26  The two resolvers agree when testing is off: for every valid       *)
(* configuration with testing = false the targets of getTemplateFiles are  *)
(* exactly the paths ExpressGenerator.generate writes.                     *)
(***************************************************************************)
C26_ResolversAgree ==
  (Constructed /\ ValidEnums(config) /\ config.testing = FALSE) =>
    /\ Generated => WrittenPaths = Targets(getTemplateFiles(config))
    /\ Resolved => Targets(templates) = DOMAIN Output(config, projectName)

C26_Witness ==
  /\ Resolved
  /\ config.testing = FALSE /\ config.docker = TRUE
  /\ config.language = "typescript" /\ config.database = "postgresql"
  /\ config.authentication = "session"
  /\ Cardinality(Targets(templates)) = 22
  /\ DockerPaths \cup {TsConfigPath, TypesPath} \subseteq Targets(templates)

(***************************************************************************)
(* The command line with a child process that ends: once npm install has   *)
(* been spawned, the child emits 'close' or 'error'.                       *)
(***************************************************************************)
SpecCLIFair == SpecCLI /\ WF_vars(NpmClose \/ NpmError)

(***************************************************************************)
(* C27  Installing dependencies never fails the run: once npm install has  *)
(* been spawned the success message has been shown, the promise is         *)
(* pending or resolved and never rejected, run never reaches its catch     *)
(* block and the process never exits with code 1; a resolved promise       *)
(* stays resolved when 'close' follows 'error'; the pending promise is     *)
(* eventually resolved.                                                    *)
(***************************************************************************)
InstallIsHarmless ==
  install # "none" =>
    /\ install \in {"pending", "resolved"}
    /\ Shown("success") /\ ~Shown("error")
    /\ pc \in {"installing", "exited"}
    /\ exitCode \in {NoExit, 0}

C27_InstallNeverFailsRun ==
  /\ [](entry = "cli" => InstallIsHarmless)
  /\ [][install = "resolved" => install' = "resolved"]_vars
  /\ (install = "pending") ~> (install = "resolved")

C27_Witness ==
  /\ pc = "installing"
  /\ install = "resolved"
  /\ exitCode = NoExit
  /\ Shown("success")

(***************************************************************************)
(* C28  Dockerfile order: in a typescript configuration with docker the    *)
(* build step (npm run build, i.e. tsc) comes after an install step that   *)
(* installs the compiler, which the manifest declares under                *)
(* devDependencies, and before the start command; in a javascript          *)
(* configuration the Dockerfile has no build step.                         *)
(***************************************************************************)
DockerSteps == written[<<"Dockerfile">>].data.steps

\* the manifest sections an install step of the Dockerfile installs
InstalledSections(step) ==
  CASE step = "RUN npm ci --only=production" -> {"dependencies"}
    [] step \in {"RUN npm ci", "RUN npm install"} -> {"dependencies", "devDependencies"}
    [] OTHER -> {}

InstalledBy(step) == UNION {DOMAIN Manifest[section] : section \in InstalledSections(step)}

BuildStep == "RUN npm run build"
StartStep == "CMD npm start"

C28_DockerBuildOrder ==
  (Generated /\ ValidEnums(config) /\ config.docker = TRUE) =>
    IF config.language = "typescript"
    THEN /\ "typescript" \in DevDependencies
         /\ \E i, j, k \in DOMAIN DockerSteps :
              /\ i < j /\ j < k
              /\ "typescript" \in InstalledBy(DockerSteps[i])
              /\ DockerSteps[j] = BuildStep
              /\ DockerSteps[k] = StartStep
    ELSE BuildStep \notin Range(DockerSteps)

(***************************************************************************)
(* C29  Entry-point consistency: for every configuration the manifest's    *)
(* main is the file the start script runs, server.js for javascript and    *)
(* dist/server.js for typescript; the entry point written is server.js     *)
(* resp. server.ts at the project root; for typescript the tsconfig        *)
(* (rootDir ./, outDir ./dist, include server.ts) compiles server.ts to    *)
(* exactly the manifest's main.                                            *)
(***************************************************************************)
RECURSIVE Join(_)
Join(path) == IF Len(path) = 1 THEN path[1] ELSE path[1] \o "/" \o Join(Tail(path))

TsConfig == written[TsConfigPath].data

\* tsc emits <outDir>/<path relative to rootDir> with the extension js
CompiledEntryPoint == File(TsConfig.outDir, "server", "js")

C29_EntryPointConsistency ==
  Generated =>
    /\ Manifest.scripts.start = "node " \o Manifest.main
    /\ ServerPath \in WrittenPaths
    /\ IF config.language = "typescript"
       THEN /\ Manifest.main = "dist/server.js"
            /\ ServerPath = <<"server.ts">> /\ <<"server.js">> \notin WrittenPaths
            /\ TsConfig.rootDir = <<>> /\ TsConfig.outDir = <<"dist">>
            /\ File(TsConfig.rootDir, "server", "ts") \in WrittenPaths \cap TsConfig.include
            /\ <<"server.ts">> \notin TsConfig.exclude
            /\ Join(CompiledEntryPoint) = Manifest.main
       ELSE /\ Manifest.main = "server.js"
            /\ ServerPath = <<"server.js">> /\ <<"server.ts">> \notin WrittenPaths
            /\ Join(ServerPath) = Manifest.main

C29_Witness ==
  /\ Generated
  /\ config.language = "typescript"
  /\ Manifest.main = "dist/server.js"
  /\ Manifest.scripts.start = "node dist/server.js"
  /\ <<"server.ts">> \in WrittenPaths
  /\ CompiledEntryPoint = <<"dist", "server.js">>

(***************************************************************************)
(* C30  Type stubs: in every written package.json an @types/X entry        *)
(* appears only when the language is typescript; for every @types/X other  *)
(* than @types/node the package X is declared in dependencies or           *)
(* devDependencies; a javascript manifest has no typescript, ts-node,      *)
(* ts-jest or @types/* entry.                                              *)
(***************************************************************************)
\* the package an @types stub describes
StubOf ==
  ("@types/node" :> "node") @@ ("@types/express" :> "express") @@
  ("@types/cors" :> "cors") @@ ("@types/bcryptjs" :> "bcryptjs") @@
  ("@types/jsonwebtoken" :> "jsonwebtoken") @@
  ("@types/express-session" :> "express-session") @@ ("@types/pg" :> "pg") @@
  ("@types/jest" :> "jest") @@ ("@types/supertest" :> "supertest")

\* every package name the manifest can carry that is not an @types stub
PlainPackages ==
  {"express", "dotenv", "cors", "helmet", "morgan", "express-rate-limit", "bcryptjs",
   "jsonwebtoken", "express-session", "connect-mongo", "mongoose", "sequelize", "pg",
   "mysql2", "sqlite3", "express-validator", "nodemon", "typescript", "ts-node", "jest",
   "supertest", "ts-jest"}

TypeScriptOnly == {"typescript", "ts-node", "ts-jest"} \cup DOMAIN StubOf

C30_TypeStubs ==
  PackageJson \in WrittenPaths =>
    /\ Declared(Manifest) \subseteq PlainPackages \cup DOMAIN StubOf
    /\ Dependencies \cap DOMAIN StubOf = {}
    /\ config.language # "typescript" => Declared(Manifest) \cap TypeScriptOnly = {}
    /\ \A stub \in DevDependencies \cap DOMAIN StubOf :
         /\ config.language = "typescript"
         /\ stub # "@types/node" => StubOf[stub] \in Declared(Manifest)

C30_Witness ==
  /\ Generated
  /\ config.language = "typescript" /\ config.authentication = "session"
  /\ config.database = "postgresql" /\ config.testing = TRUE /\ config.cors = FALSE
  /\ DevDependencies \cap DOMAIN StubOf =
       {"@types/node", "@types/express", "@types/express-session", "@types/bcryptjs",
        "@types/pg", "@types/jest", "@types/supertest"}

====
